---- MODULE Spec2Model ----
(***************************************************************************)
(* Model of the MARF SQLite storage layer                                  *)
(* (src/chainstate/stacks/index/trie_sql.rs): the committed namespace      *)
(* marf_data, the mined namespace mined_blocks and the extension-lock      *)
(* table block_extension_locks, accessed by several writers, each on its   *)
(* own SQLite connection.                                                  *)
(*                                                                         *)
(* Row ids are SQLite rowids (64-bit).  The values of interest lie around  *)
(* 2^31 and 2^32, so a rowid is kept as two 16-bit limbs [hi, lo] standing *)
(* for hi * 2^16 + lo.                                                     *)
(*                                                                         *)
(* Second part: the event dispatcher of the testnet node                   *)
(* (testnet/src/event_dispatcher.rs): observers register with a set of     *)
(* event keys, and process_chain_tip sends each observer the events of a   *)
(* chain tip that its keys select.  The two parts share no state; each has *)
(* its own specification (Spec, DispatchSpec).                             *)
(***************************************************************************)
EXTENDS Integers, FiniteSets, Sequences

(* ---------------- bounds of the model ---------------- *)
NumWriters == 2
NumHashes == 2
NumBlobs == 2
MaxMinedWrites == 2
\* the event dispatcher
NumObservers == 2       \* register_observer calls after the earlier ones
MaxKeys == 2            \* event keys of one observer's configuration
NumContractKeys == 1    \* (contract identifier, topic) pairs
NumAssets == 1          \* asset identifiers
MaxReceipts == 2        \* receipts of a chain tip
MaxEvents == 2          \* events of a chain tip
MaxChainTips == 1       \* process_chain_tip calls

Writers == 1..NumWriters
Hashes == 1..NumHashes
Blobs == 1..NumBlobs
\* a block hash that is none of Hashes (an earlier block; no argument)
OtherHash == NumHashes + 1

(* ---------------- wide integers (rowids) ---------------- *)
Limb == 2^16
W(hi, lo) == [hi |-> hi, lo |-> lo]
WZero == W(0, 0)
WSucc(x) == IF x.lo = Limb - 1 THEN W(x.hi + 1, 0) ELSE W(x.hi, x.lo + 1)
WAdd(x, n) == W(x.hi + ((x.lo + n) \div Limb), (x.lo + n) % Limb)
WLess(x, y) == x.hi < y.hi \/ (x.hi = y.hi /\ x.lo < y.lo)
WLeq(x, y) == x = y \/ WLess(x, y)
WMaxOf(S) == CHOOSE m \in S : \A x \in S : WLeq(x, m)

\* largest value of the u32 that write_trie_blob returns: 2^32 - 1
U32_MAX == W(Limb - 1, Limb - 1)
\* the documented capacity, "2**31 - 1 blocks"
MARF_MAX_BLOCKS == W(Limb \div 2 - 1, Limb - 1)

(* ---------------- results of a call ---------------- *)
OkId(k) == [kind |-> "Ok", err |-> "", id |-> k, flag |-> FALSE]
OkBool(f) == [kind |-> "Ok", err |-> "", id |-> WZero, flag |-> f]
OkUnit == [kind |-> "Ok", err |-> "", id |-> WZero, flag |-> FALSE]
ErrOf(e) == [kind |-> "Err", err |-> e, id |-> WZero, flag |-> FALSE]
\* .expect("EXHAUSTION: MARF cannot track more than 2**31 - 1 blocks") failing
Exhaustion == [kind |-> "Panic", err |-> "EXHAUSTION", id |-> WZero, flag |-> FALSE]
\* a step of lock_bhh_for_extension after which the call goes on
Pending == [kind |-> "Pending", err |-> "", id |-> WZero, flag |-> FALSE]

VARIABLES
    marf_prior,             \* rows 1..marf_prior of marf_data, of hashes outside Hashes
    marf_data,              \* rows of marf_data for the hashes of Hashes
    mined_prior,            \* largest rowid of the mined_blocks rows of hashes outside Hashes
    mined_blocks,           \* rows of mined_blocks for the hashes of Hashes
    block_extension_locks,  \* rows of block_extension_locks
    pc,                     \* position of each writer inside lock_bhh_for_extension
    bhh,                    \* argument of the call a writer is in
    grants,                 \* per hash: try_lock calls that returned true since its last removal
    issued,                 \* ids returned by insert since the last clear_tables
    high_water              \* largest id insert has ever returned (rows 1..marf_prior included)

storage == <<marf_prior, marf_data, mined_prior, mined_blocks, block_extension_locks,
             pc, bhh, grants, issued, high_water>>

tables == <<marf_prior, marf_data, mined_prior, mined_blocks, block_extension_locks>>
committed_namespace == <<marf_prior, marf_data>>
mined_namespace == <<mined_prior, mined_blocks>>

(* ---------------- state of the event dispatcher ---------------- *)
VARIABLES
    registered_prior,       \* observers registered earlier, all with no event keys
    registered_observers,   \* the observers registered after them, in order, each
                            \* with the event keys it registered with
    contract_events_observers_lookup,   \* (contract, topic) key -> observer indexes
    assets_observers_lookup,            \* asset identifier -> observer indexes
    stx_observers_lookup,               \* observer indexes
    any_event_observers_lookup,         \* observer indexes
    chain_tip,              \* the chain tip of the last process_chain_tip call
    sent,                   \* the calls of EventObserver::send it made, in order
    status,                 \* "idle", or how that call ended: "returned", "panicked"
    tips_processed          \* process_chain_tip calls so far

dispatcher == <<registered_prior, registered_observers,
                contract_events_observers_lookup, assets_observers_lookup,
                stx_observers_lookup, any_event_observers_lookup,
                chain_tip, sent, status, tips_processed>>

vars == <<storage, dispatcher>>

\* stores the program can have built by inserts alone: empty, or holding
\* 2^31 - 2 or 2^32 - 2 earlier blocks
InitialBlocks == {WZero, W(Limb \div 2 - 1, Limb - 2), W(Limb - 1, Limb - 2)}

ContractKeys == 1..NumContractKeys
AssetIds == 1..NumAssets

\* EventDispatcher::new(), after registered_prior observers without event keys
EventDispatcher_new ==
    /\ registered_observers = <<>>
    /\ contract_events_observers_lookup = [k \in ContractKeys |-> {}]
    /\ assets_observers_lookup = [a \in AssetIds |-> {}]
    /\ stx_observers_lookup = {}
    /\ any_event_observers_lookup = {}
    /\ chain_tip = <<>>
    /\ sent = <<>>
    /\ status = "idle"
    /\ tips_processed = 0

\* the storage layer of a new store
StorageInit ==
    /\ marf_data = {}
    /\ mined_blocks = {}
    /\ block_extension_locks = {}
    /\ pc = [w \in Writers |-> "idle"]
    /\ bhh = [w \in Writers |-> OtherHash]
    /\ grants = [h \in Hashes |-> 0]
    /\ issued = {}

Init ==
    /\ marf_prior \in InitialBlocks
    /\ mined_prior = marf_prior
    /\ high_water = marf_prior
    /\ StorageInit
    /\ registered_prior = 0
    /\ EventDispatcher_new

(* ---------------- queries ---------------- *)
\* SELECT 1 FROM marf_data WHERE block_hash = ? LIMIT 1
is_bhh_committed(h) == \E r \in marf_data : r.block_hash = h
\* SELECT 1 FROM block_extension_locks WHERE block_hash = ? LIMIT 1
is_bhh_locked(h) == h \in block_extension_locks

\* the largest rowid of a table, 0 when it is empty
MaxRowid(prior, rows) == WMaxOf({prior} \cup {r.block_id : r \in rows})
\* variant: the new rowid does not look at the rows already there
NewRowid_ignoring_rows(prior, rows) == WSucc(prior)
\* the rowid SQLite gives to a row inserted without one: largest rowid + 1
NewRowid(prior, rows) == WSucc(MaxRowid(prior, rows))
\* i64 -> u32 conversion of a rowid (rowids are never negative)
FitsU32(k) == WLeq(k, U32_MAX)

get_block_identifier(h) ==
    IF is_bhh_committed(h)
    THEN LET r == CHOOSE r \in marf_data : r.block_hash = h
         IN IF FitsU32(r.block_id) THEN OkId(r.block_id) ELSE ErrOf("OutOfRange")
    ELSE ErrOf("NotFound")

get_block_hash(k) ==
    IF \E r \in marf_data : r.block_id = k
    THEN [kind |-> "Ok", hash |-> (CHOOSE r \in marf_data : r.block_id = k).block_hash]
    ELSE IF WLess(WZero, k) /\ WLeq(k, marf_prior)
         THEN [kind |-> "Ok", hash |-> OtherHash]
         ELSE [kind |-> "Err", hash |-> OtherHash]

count_blocks ==
    LET m == MaxRowid(marf_prior, marf_data)
    IN IF FitsU32(m) THEN OkId(m) ELSE ErrOf("OutOfRange")

(* ---------------- SQLite file locks ---------------- *)
\* The code sets no journal mode, so the database is in SQLite's default
\* rollback-journal mode: readers share the file, one connection at a time
\* may write, and a commit waits for every other reader to finish.  A
\* statement that cannot get its lock either waits (another step is taken
\* first) or fails with SQLITE_BUSY.
\* a connection inside a deferred transaction that has read holds SHARED,
\* one that has written holds RESERVED; EXCLUSIVE is held only inside a commit
HoldsShared(v) == pc[v] \in {"not_committed", "not_locked"}
HoldsReserved(v) == pc[v] = "inserted"
OtherReading(w) == \E v \in Writers \ {w} : HoldsShared(v)
OtherWriting(w) == \E v \in Writers \ {w} : HoldsReserved(v)
\* a statement run outside a transaction commits by itself: it needs RESERVED
\* to run and EXCLUSIVE to commit
DatabaseBusy(w) == OtherWriting(w) \/ OtherReading(w)

(* ---------------- lock_bhh_for_extension ---------------- *)
\* the call of writer w on hash h returns res and its transaction is over
\* (committed, or rolled back when the Transaction is dropped)
Return(w, h, res) ==
    /\ pc' = [pc EXCEPT ![w] = "idle"]
    /\ bhh' = [bhh EXCEPT ![w] = OtherHash]
    /\ grants' = IF res = OkBool(TRUE)
                 THEN [grants EXCEPT ![h] = IF @ < 2 THEN @ + 1 ELSE @]
                 ELSE grants

\* the call goes on to its next statement
Advance(w, h, to) ==
    /\ pc' = [pc EXCEPT ![w] = to]
    /\ bhh' = [bhh EXCEPT ![w] = h]
    /\ UNCHANGED grants

\* variant: the committed check is skipped
committed_check_skipped(h) == Pending
\* BEGIN (deferred: no lock yet), then the committed check
committed_check(h) == IF is_bhh_committed(h) THEN OkBool(FALSE) ELSE Pending

LockCheckCommitted(w, h) ==
    /\ pc[w] = "idle"
    /\ IF committed_check(h) = Pending
       THEN Advance(w, h, "not_committed")
       ELSE Return(w, h, committed_check(h))
    /\ UNCHANGED <<tables, issued, high_water>>

\* variant: a locked hash is reported as acquired
locked_check_inverted(h) == IF is_bhh_locked(h) THEN OkBool(TRUE) ELSE Pending
\* variant: a locked hash is reported as an error
locked_check_error(h) == IF is_bhh_locked(h) THEN ErrOf("Locked") ELSE Pending
locked_check(h) == IF is_bhh_locked(h) THEN OkBool(FALSE) ELSE Pending

LockCheckLocked(w) ==
    /\ pc[w] = "not_committed"
    /\ IF locked_check(bhh[w]) = Pending
       THEN Advance(w, bhh[w], "not_locked")
       ELSE Return(w, bhh[w], locked_check(bhh[w]))
    /\ UNCHANGED <<tables, issued, high_water>>

\* INSERT INTO block_extension_locks: needs RESERVED; a reader that cannot
\* get it is told SQLITE_BUSY at once; block_hash is the primary key
lock_insert(w, h) ==
    IF OtherWriting(w) THEN ErrOf("Busy")
    ELSE IF is_bhh_locked(h) THEN ErrOf("Constraint")
    ELSE Pending

LockInsert(w) ==
    /\ pc[w] = "not_locked"
    /\ IF lock_insert(w, bhh[w]) = Pending
       THEN Advance(w, bhh[w], "inserted")
       ELSE Return(w, bhh[w], lock_insert(w, bhh[w]))
    /\ UNCHANGED <<tables, issued, high_water>>

\* COMMIT: needs EXCLUSIVE, which no other connection's SHARED allows
lock_commit(w) == IF OtherReading(w) THEN ErrOf("Busy") ELSE OkBool(TRUE)

LockCommit(w) ==
    /\ pc[w] = "inserted"
    /\ block_extension_locks' =
          IF lock_commit(w).kind = "Ok"
          THEN block_extension_locks \cup {bhh[w]}
          ELSE block_extension_locks
    /\ Return(w, bhh[w], lock_commit(w))
    /\ UNCHANGED <<marf_prior, marf_data, mined_prior, mined_blocks, issued, high_water>>

(* ---------------- write_trie_blob ---------------- *)
\* variant: block_hash is not UNIQUE in marf_data
insert_result_no_unique(w, h) ==
    IF DatabaseBusy(w) THEN ErrOf("Busy")
    ELSE IF FitsU32(NewRowid(marf_prior, marf_data))
         THEN OkId(NewRowid(marf_prior, marf_data))
         ELSE Exhaustion

\* variant: the INSERT does not wait for the transactions that have read
insert_result_ignoring_readers(w, h) ==
    IF OtherWriting(w) THEN ErrOf("Busy")
    ELSE IF is_bhh_committed(h) THEN ErrOf("Duplicate")
    ELSE IF FitsU32(NewRowid(marf_prior, marf_data))
         THEN OkId(NewRowid(marf_prior, marf_data))
         ELSE Exhaustion

insert_result(w, h) ==
    IF OtherWriting(w) THEN ErrOf("Busy")
    ELSE IF is_bhh_committed(h) THEN ErrOf("Duplicate")
    ELSE IF OtherReading(w) THEN ErrOf("Busy")
    ELSE IF FitsU32(NewRowid(marf_prior, marf_data))
         THEN OkId(NewRowid(marf_prior, marf_data))
         ELSE Exhaustion

\* variant: INSERT OR REPLACE INTO marf_data
write_trie_blob_replacing(w, h, b) ==
    /\ pc[w] = "idle"
    /\ ~DatabaseBusy(w)
    /\ marf_data' = {r \in marf_data : r.block_hash # h}
                      \cup {[block_id |-> NewRowid(marf_prior, marf_data),
                             block_hash |-> h, data |-> b]}
    /\ issued' = issued \cup {NewRowid(marf_prior, marf_data)}
    /\ high_water' = high_water
    /\ UNCHANGED <<marf_prior, mined_prior, mined_blocks, block_extension_locks,
                   pc, bhh, grants>>

\* the row is written before the rowid is converted: it stays when the
\* conversion panics
write_trie_blob(w, h, b) ==
    /\ pc[w] = "idle"
    /\ LET res == insert_result(w, h)
       IN /\ marf_data' =
                IF res.kind \in {"Ok", "Panic"}
                THEN marf_data \cup {[block_id |-> NewRowid(marf_prior, marf_data),
                                      block_hash |-> h, data |-> b]}
                ELSE marf_data
          /\ issued' = IF res.kind = "Ok" THEN issued \cup {res.id} ELSE issued
          /\ high_water' = IF res.kind = "Ok" /\ WLess(high_water, res.id) THEN res.id ELSE high_water
    /\ UNCHANGED <<marf_prior, mined_prior, mined_blocks, block_extension_locks,
                   pc, bhh, grants>>

(* ---------------- write_trie_blob_to_mined ---------------- *)
\* the model stops writing mined rows MaxMinedWrites ids after a table's first id
MinedIdInBound(k) ==
    \E p \in InitialBlocks : WLess(p, k) /\ WLeq(k, WAdd(p, MaxMinedWrites))

insert_mined_result(w, h) ==
    IF DatabaseBusy(w) THEN ErrOf("Busy")
    ELSE IF FitsU32(NewRowid(mined_prior, mined_blocks))
         THEN OkId(NewRowid(mined_prior, mined_blocks))
         ELSE Exhaustion

\* variant: plain INSERT into a mined_blocks whose block_hash is not UNIQUE
write_trie_blob_to_mined_appending(w, h, b) ==
    /\ pc[w] = "idle"
    /\ MinedIdInBound(NewRowid(mined_prior, mined_blocks))
    /\ mined_blocks' =
          IF insert_mined_result(w, h).kind \in {"Ok", "Panic"}
          THEN mined_blocks \cup {[block_id |-> NewRowid(mined_prior, mined_blocks),
                                   block_hash |-> h, data |-> b]}
          ELSE mined_blocks
    /\ UNCHANGED <<marf_prior, marf_data, mined_prior, block_extension_locks,
                   pc, bhh, grants, issued, high_water>>

\* INSERT OR REPLACE: the rowid is taken first, then the row in conflict is deleted
write_trie_blob_to_mined(w, h, b) ==
    /\ pc[w] = "idle"
    /\ MinedIdInBound(NewRowid(mined_prior, mined_blocks))
    /\ mined_blocks' =
          IF insert_mined_result(w, h).kind \in {"Ok", "Panic"}
          THEN {r \in mined_blocks : r.block_hash # h}
                 \cup {[block_id |-> NewRowid(mined_prior, mined_blocks),
                        block_hash |-> h, data |-> b]}
          ELSE mined_blocks
    /\ UNCHANGED <<marf_prior, marf_data, mined_prior, block_extension_locks,
                   pc, bhh, grants, issued, high_water>>

(* ---------------- drop_lock, clear_lock_data, clear_tables ---------------- *)
delete_result(w) == IF DatabaseBusy(w) THEN ErrOf("Busy") ELSE OkUnit

\* variant: the DELETE matches no row
drop_lock_deleting_nothing(w, h) ==
    /\ pc[w] = "idle"
    /\ grants' = IF delete_result(w).kind = "Ok" THEN [grants EXCEPT ![h] = 0] ELSE grants
    /\ UNCHANGED <<tables, pc, bhh, issued, high_water>>

drop_lock(w, h) ==
    /\ pc[w] = "idle"
    /\ IF delete_result(w).kind = "Ok"
       THEN /\ block_extension_locks' = block_extension_locks \ {h}
            /\ grants' = [grants EXCEPT ![h] = 0]
       ELSE UNCHANGED <<block_extension_locks, grants>>
    /\ UNCHANGED <<marf_prior, marf_data, mined_prior, mined_blocks,
                   pc, bhh, issued, high_water>>

\* variant: the DELETE removes one row only
clear_lock_data_dropping_one(w) ==
    /\ pc[w] = "idle"
    /\ IF delete_result(w).kind = "Ok" /\ block_extension_locks # {}
       THEN LET h == CHOOSE h \in block_extension_locks : TRUE
            IN /\ block_extension_locks' = block_extension_locks \ {h}
               /\ grants' = [grants EXCEPT ![h] = 0]
       ELSE UNCHANGED <<block_extension_locks, grants>>
    /\ UNCHANGED <<marf_prior, marf_data, mined_prior, mined_blocks,
                   pc, bhh, issued, high_water>>

clear_lock_data(w) ==
    /\ pc[w] = "idle"
    /\ IF delete_result(w).kind = "Ok"
       THEN /\ block_extension_locks' = {}
            /\ grants' = [h \in Hashes |-> 0]
       ELSE UNCHANGED <<block_extension_locks, grants>>
    /\ UNCHANGED <<marf_prior, marf_data, mined_prior, mined_blocks,
                   pc, bhh, issued, high_water>>

\* variant: marf_data is not deleted
clear_tables_keeping_marf_data(w) ==
    /\ pc[w] = "idle"
    /\ IF delete_result(w).kind = "Ok"
       THEN /\ block_extension_locks' = {}
            /\ mined_blocks' = {}
            /\ mined_prior' = WZero
            /\ grants' = [h \in Hashes |-> 0]
            /\ UNCHANGED <<marf_prior, marf_data, issued>>
       ELSE UNCHANGED <<tables, grants, issued>>
    /\ UNCHANGED <<pc, bhh, high_water>>

\* one transaction of three DELETEs; the first takes RESERVED, COMMIT takes EXCLUSIVE
clear_tables(w) ==
    /\ pc[w] = "idle"
    /\ IF delete_result(w).kind = "Ok"
       THEN /\ block_extension_locks' = {}
            /\ marf_data' = {}
            /\ marf_prior' = WZero
            /\ mined_blocks' = {}
            /\ mined_prior' = WZero
            /\ grants' = [h \in Hashes |-> 0]
            /\ issued' = {}
       ELSE UNCHANGED <<tables, grants, issued>>
    /\ UNCHANGED <<pc, bhh, high_water>>

Next ==
    \/ \E w \in Writers, h \in Hashes : LockCheckCommitted(w, h)
          /\ UNCHANGED dispatcher
    \/ \E w \in Writers : LockCheckLocked(w)
          /\ UNCHANGED dispatcher
    \/ \E w \in Writers : LockInsert(w)
          /\ UNCHANGED dispatcher
    \/ \E w \in Writers : LockCommit(w)
          /\ UNCHANGED dispatcher
    \/ \E w \in Writers, h \in Hashes, b \in Blobs : write_trie_blob(w, h, b)
          /\ UNCHANGED dispatcher
    \/ \E w \in Writers, h \in Hashes, b \in Blobs : write_trie_blob_to_mined(w, h, b)
          /\ UNCHANGED dispatcher
    \/ \E w \in Writers, h \in Hashes : drop_lock(w, h)
          /\ UNCHANGED dispatcher
    \/ \E w \in Writers : clear_lock_data(w)
          /\ UNCHANGED dispatcher
    \/ \E w \in Writers : clear_tables(w)
          /\ UNCHANGED dispatcher

Spec == Init /\ [][Next]_vars

(* ======================= the event dispatcher ======================= *)
\* EventKeyType (config.rs): what an observer subscribes to
SmartContractEvent(k) == [type |-> "contract", key |-> k]
STXEvent == [type |-> "stx", key |-> 0]
AssetEvent(a) == [type |-> "asset", key |-> a]
AnyEvent == [type |-> "any", key |-> 0]
EventKeyTypes ==
    {SmartContractEvent(k) : k \in ContractKeys} \cup {STXEvent}
       \cup {AssetEvent(a) : a \in AssetIds} \cup {AnyEvent}

\* StacksTransactionEvent: a contract event with its (contract, topic) key, an
\* STX transfer, mint or burn, or an NFT or FT transfer or mint with its asset
\* identifier; the variants that process_chain_tip treats alike are one value
StacksTransactionEvents ==
    {SmartContractEvent(k) : k \in ContractKeys} \cup {STXEvent}
       \cup {AssetEvent(a) : a \in AssetIds}

\* EventObserverConfig.events_keys, as the set of its keys
EventObserverConfigs == {c \in SUBSET EventKeyTypes : Cardinality(c) <= MaxKeys}

SeqsUpTo(S, n) == UNION {[1..m -> S] : m \in 0..n}

RECURSIVE AllEvents(_)
\* the events of the receipts, in receipt order and event order
AllEvents(receipts) ==
    IF receipts = <<>> THEN <<>>
    ELSE Head(receipts).events \o AllEvents(Tail(receipts))

\* the ways to cut len events into r receipts: receipt n gets the events
\* after c[n - 1], up to c[n]
Cuts(r, len) ==
    {c \in [0..r -> 0..len] :
        c[0] = 0 /\ c[r] = len /\ \A n \in 1..r : c[n - 1] <= c[n]}

\* ChainTip.receipts: each receipt with its events and whether its result is
\* a Value::Response; at most MaxReceipts receipts and MaxEvents events in all
ChainTips ==
    {<<>>} \cup
    UNION {{[n \in 1..r |-> [is_response |-> f[n],
                             events |-> SubSeq(ev, c[n - 1] + 1, c[n])]] :
               f \in [1..r -> BOOLEAN], c \in Cuts(r, Len(ev))} :
             r \in 1..MaxReceipts, ev \in SeqsUpTo(StacksTransactionEvents, MaxEvents)}

\* variant: the index is taken after the observer is pushed
AsU16_after_push(n) == (n + 1) % (2^16)
\* as u16
AsU16(n) == n % (2^16)

\* registered_observers.len()
NumRegistered == registered_prior + Len(registered_observers)

\* the indexes found for an event: its bucket's, and the any-event bucket's
ObserverIndexes(event) ==
    (CASE event.type = "contract" -> contract_events_observers_lookup[event.key]
       [] event.type = "stx" -> stx_observers_lookup
       [] event.type = "asset" -> assets_observers_lookup[event.key])
    \cup any_event_observers_lookup

\* the row of observer_id in the dispatch matrix: ids (from 0) of the events
\* in whose buckets its position was found
dispatch_matrix(tip, observer_id) ==
    {i \in 0..(Len(AllEvents(tip)) - 1) : observer_id \in ObserverIndexes(AllEvents(tip)[i + 1])}

\* the orders in which a HashSet<usize> of event ids can be iterated
IterationOrders(n) ==
    {f \in [0..(n - 1) -> 0..(n - 1)] : \A i, j \in 0..(n - 1) : f[i] = f[j] => i = j}

RECURSIVE Iterate(_, _)
\* the elements of the set S in the order ord
Iterate(S, ord) ==
    IF S = {} THEN <<>>
    ELSE LET x == CHOOSE x \in S : \A y \in S : ord[x] <= ord[y]
         IN <<x>> \o Iterate(S \ {x}, ord)

\* every result of the chain tip's receipts is a Value::Response
AllResponses(tip) == \A n \in 1..Len(tip) : tip[n].is_response

\* EventObserver::send for the observers first..last (one observer, or a run
\* of observers that all have an empty row): connect, serialize (unreachable!()
\* at a result that is no response), write
send(tip, filtered_events, first, last, failure) ==
    LET connected == failure # "connect"
        serialized == connected /\ AllResponses(tip)
    IN [first |-> first, last |-> last, events |-> filtered_events,
        connected |-> connected,
        delivered |-> serialized /\ failure # "write"]

\* the earlier observers have no keys: such an observer's row is empty unless
\* a later observer was given its index
Quiet(tip, observer_id) ==
    observer_id < registered_prior /\ dispatch_matrix(tip, observer_id) = {}

\* the last observer of the run of quiet observers that starts at observer_id:
\* the run ends before the next index found in a bucket, before the observer
\* at which a failure happens, and with the last of the earlier observers
RunEnd(tip, observer_id, fail_at) ==
    LET stops == {o \in (any_event_observers_lookup \cup stx_observers_lookup
                           \cup UNION {contract_events_observers_lookup[k] : k \in ContractKeys}
                           \cup UNION {assets_observers_lookup[a] : a \in AssetIds}
                           \cup {fail_at, registered_prior}) :
                     o > observer_id}
    IN (CHOOSE m \in stops : \A o \in stops : m <= o) - 1

RECURSIVE send_loop(_, _, _, _, _)
\* the loop over the dispatch matrix from observer_id on; it ends where send panics
send_loop(tip, ord, fail_at, failure, observer_id) ==
    IF observer_id >= NumRegistered THEN <<>>
    ELSE LET last == IF /\ Quiet(tip, observer_id)
                        /\ fail_at # observer_id
                        /\ AllResponses(tip)
                     THEN RunEnd(tip, observer_id, fail_at)
                     ELSE observer_id
             filtered_events == Iterate(dispatch_matrix(tip, observer_id), ord)
             call == send(tip, filtered_events, observer_id, last,
                          IF fail_at = observer_id THEN failure ELSE "none")
         IN IF call.delivered
            THEN <<call>> \o send_loop(tip, ord, fail_at, failure, last + 1)
            ELSE <<call>>

\* the observers at which the model lets a connection or a write fail
FailurePoints == {-1, 0, 1} \cup (registered_prior..(NumRegistered - 1))

process_chain_tip(tip) ==
    /\ status # "panicked"
    /\ tips_processed < MaxChainTips
    /\ \E ord \in IterationOrders(Len(AllEvents(tip))),
          fail_at \in FailurePoints, failure \in {"connect", "write"} :
          LET calls == send_loop(tip, ord, fail_at, failure, 0)
          IN /\ sent' = calls
             /\ status' = IF calls # <<>> /\ ~calls[Len(calls)].delivered
                          THEN "panicked" ELSE "returned"
    /\ chain_tip' = tip
    /\ tips_processed' = tips_processed + 1
    /\ UNCHANGED <<registered_prior, registered_observers,
                   contract_events_observers_lookup, assets_observers_lookup,
                   stx_observers_lookup, any_event_observers_lookup>>

register_observer(conf) ==
    /\ status # "panicked"
    /\ Len(registered_observers) < NumObservers
    /\ LET observer_index == AsU16(NumRegistered)
       IN /\ contract_events_observers_lookup' =
                [k \in ContractKeys |->
                    IF SmartContractEvent(k) \in conf
                    THEN contract_events_observers_lookup[k] \cup {observer_index}
                    ELSE contract_events_observers_lookup[k]]
          /\ stx_observers_lookup' =
                IF STXEvent \in conf THEN stx_observers_lookup \cup {observer_index}
                ELSE stx_observers_lookup
          /\ assets_observers_lookup' =
                [a \in AssetIds |->
                    IF AssetEvent(a) \in conf
                    THEN assets_observers_lookup[a] \cup {observer_index}
                    ELSE assets_observers_lookup[a]]
          /\ any_event_observers_lookup' =
                IF AnyEvent \in conf THEN any_event_observers_lookup \cup {observer_index}
                ELSE any_event_observers_lookup
          /\ registered_observers' =
                Append(registered_observers, [endpoint |-> NumRegistered, events_keys |-> conf])
    /\ UNCHANGED <<registered_prior, chain_tip, sent, status, tips_processed>>

\* a dispatcher with no observer, or with 2^16 - 1 observers that have no keys
InitialObservers == {0, 2^16 - 1}

DispatchInit ==
    /\ registered_prior \in InitialObservers
    /\ EventDispatcher_new
    /\ marf_prior = WZero
    /\ mined_prior = WZero
    /\ high_water = WZero
    /\ StorageInit

DispatchNext ==
    \/ \E conf \in EventObserverConfigs : register_observer(conf)
          /\ UNCHANGED storage
    \/ \E tip \in ChainTips : process_chain_tip(tip)
          /\ UNCHANGED storage

DispatchSpec == DispatchInit /\ [][DispatchNext]_vars

(* ======================= properties ======================= *)
Alone(w) == \A v \in Writers \ {w} : pc[v] = "idle"

\* C1: for every block hash, at most one try_lock call returns true between
\* two consecutive removals of the hash from the lock table, however the
\* writers' calls interleave.
C1_MutualExclusion == \A h \in Hashes : grants[h] <= 1

\* two writers inside try_lock on the same hash, both having seen it neither
\* committed nor locked; one of them has written its lock row
C1_Witness ==
    \E w1, w2 \in Writers :
        /\ pc[w1] = "inserted" /\ pc[w2] = "not_locked"
        /\ bhh[w1] = bhh[w2]

\* C2 (as stated): no block hash is at the same time a row of marf_data and a
\* member of block_extension_locks.
C2_NeverCommittedAndLocked ==
    \A h \in Hashes : ~(is_bhh_committed(h) /\ is_bhh_locked(h))

\* C2 (amended): a hash that is committed and not locked never becomes locked;
\* a hash is in both tables only when it was locked before it was committed,
\* until drop_lock, clear_lock_data or clear_tables removes the lock row.
C2_CommittedNeverLocked ==
    [][\A h \in Hashes :
          (is_bhh_committed(h) /\ ~is_bhh_locked(h)) => ~is_bhh_locked(h)']_vars

\* one hash committed with its lock row still there, another committed and unlocked
C2_Witness ==
    \E h1, h2 \in Hashes :
        /\ is_bhh_committed(h1) /\ is_bhh_locked(h1)
        /\ is_bhh_committed(h2) /\ ~is_bhh_locked(h2)

\* C3: inserts of hashes not yet committed, with no transaction of another
\* writer open and within the capacity of 2^31 - 1 blocks, succeed; the ids
\* insert returns are strictly increasing, and right after an insert the
\* returned id equals count_blocks.
C3_InsertIds ==
    [][\A w \in Writers, h \in Hashes, b \in Blobs :
          write_trie_blob(w, h, b) =>
             LET res == insert_result(w, h)
             IN /\ (/\ ~is_bhh_committed(h)
                    /\ Alone(w)
                    /\ WLeq(NewRowid(marf_prior, marf_data), MARF_MAX_BLOCKS))
                      => res.kind = "Ok"
                /\ res.kind = "Ok" =>
                      /\ WLess(marf_prior, res.id)
                      /\ \A k \in issued : WLess(k, res.id)
                      /\ count_blocks' = OkId(res.id)
                      /\ [block_id |-> res.id, block_hash |-> h, data |-> b] \in marf_data']_vars

C3_Witness ==
    /\ Cardinality(issued) = 2
    /\ Cardinality(marf_data) = 2
    /\ count_blocks = OkId(WAdd(marf_prior, 2))

RowCountIsMaxId ==
    MaxRowid(marf_prior, marf_data) = WAdd(marf_prior, Cardinality(marf_data))

\* C4 (as stated): over any sequence of operations, clear_tables included, no
\* id is returned by two successful inserts (every returned id is above all
\* ids returned before), and the largest id equals the number of rows.
C4_NeverReused ==
    /\ []RowCountIsMaxId
    /\ [][\A w \in Writers, h \in Hashes, b \in Blobs :
             (write_trie_blob(w, h, b) /\ insert_result(w, h).kind = "Ok")
                => WLess(high_water, insert_result(w, h).id)]_vars

\* C4 (amended): between two clear_tables calls no id is returned by two
\* successful inserts and the largest id equals the number of rows;
\* clear_tables empties marf_data and the ids start again at 1.
C4_NeverReusedUntilCleared ==
    /\ []RowCountIsMaxId
    /\ [][\A w \in Writers :
             /\ \A h \in Hashes, b \in Blobs :
                   (write_trie_blob(w, h, b) /\ insert_result(w, h).kind = "Ok")
                      => insert_result(w, h).id \notin issued
             /\ (clear_tables(w) /\ delete_result(w).kind = "Ok")
                   => NewRowid(marf_prior, marf_data)' = W(0, 1)]_vars

\* an id returned after a clear_tables that is not above the ids returned before it
C4_Witness ==
    /\ issued # {}
    /\ \A k \in issued : WLess(k, high_water)

OneRowPerHash(rows) ==
    \A r1, r2 \in rows : r1.block_hash = r2.block_hash => r1 = r2

\* C5: an insert on a hash already in marf_data fails with an error and leaves
\* marf_data as it was (same count, same id and blob for the hash); a hash has
\* at most one row, also when two writers insert it.
C5_DuplicateRefused ==
    /\ []OneRowPerHash(marf_data)
    /\ [][\A w \in Writers, h \in Hashes, b \in Blobs :
             (write_trie_blob(w, h, b) /\ is_bhh_committed(h)) =>
                /\ insert_result(w, h).kind = "Err"
                /\ UNCHANGED committed_namespace
                /\ count_blocks' = count_blocks
                /\ get_block_identifier(h)' = get_block_identifier(h)]_vars

\* a committed hash holding the first blob while every writer is free to
\* insert it again with another blob
C5_Witness ==
    \E r \in marf_data :
        /\ r.data = 1
        /\ \A w \in Writers : pc[w] = "idle"
        /\ Cardinality(marf_data) = 1

\* C6: every id returned by write_trie_blob or write_trie_blob_to_mined is at
\* most 2^31 - 1; past that the call fails with the exhaustion panic.
C6_IdWithinCapacity ==
    [][\A w \in Writers, h \in Hashes, b \in Blobs :
          /\ (write_trie_blob(w, h, b) /\ insert_result(w, h).kind = "Ok")
                => WLeq(insert_result(w, h).id, MARF_MAX_BLOCKS)
          /\ (write_trie_blob_to_mined(w, h, b) /\ insert_mined_result(w, h).kind = "Ok")
                => WLeq(insert_mined_result(w, h).id, MARF_MAX_BLOCKS)]_vars

\* the hash a step of writer w's try_lock call is about
CallHash(w) == IF pc[w] = "idle" THEN bhh'[w] ELSE bhh[w]

\* C7: after a try_lock(h) that returned true and no unlock since, a try_lock(h)
\* returns false at its locked check; after try_lock(h); unlock(h), with h not
\* committed and no other writer in a transaction, try_lock(h) returns true.
C7_LockUnlockLock ==
    [][\A w \in Writers :
          pc'[w] # pc[w] =>
             /\ (grants[CallHash(w)] >= 1 /\ pc[w] = "not_committed")
                   => (pc'[w] = "idle" /\ grants' = grants)
             /\ grants[CallHash(w)] >= 1 => grants' = grants
             /\ (/\ grants[CallHash(w)] = 0
                 /\ ~is_bhh_committed(CallHash(w))
                 /\ Alone(w))
                   => (pc'[w] # "idle" \/ grants'[CallHash(w)] = 1)]_vars

\* a hash locked by one try_lock while a second try_lock on it is under way
C7_Witness ==
    \E w \in Writers :
        /\ pc[w] = "not_committed"
        /\ grants[bhh[w]] = 1
        /\ is_bhh_locked(bhh[w])

\* C8: a try_lock on a committed hash, or on a locked one, returns Ok(false),
\* not an error, at the check that finds it, and no step of a try_lock call
\* that does not return true changes marf_data, mined_blocks or the lock table.
C8_FalseWithoutEffect ==
    [][\A w \in Writers :
          /\ \A h \in Hashes :
                /\ is_bhh_committed(h) => committed_check(h) = OkBool(FALSE)
                /\ is_bhh_locked(h) => locked_check(h) = OkBool(FALSE)
          /\ (pc[w] = "idle" /\ pc'[w] # "idle") => ~is_bhh_committed(bhh'[w])
          /\ (pc[w] = "not_committed" /\ is_bhh_locked(bhh[w]) /\ pc'[w] # pc[w])
                => (pc'[w] = "idle" /\ grants' = grants)
          /\ (pc'[w] # pc[w] /\ grants' = grants) => UNCHANGED tables]_vars

\* a try_lock about to return false on a locked hash, with rows in marf_data
\* and mined_blocks that it must leave alone
C8_Witness ==
    \E w \in Writers :
        /\ pc[w] = "not_committed"
        /\ is_bhh_locked(bhh[w])
        /\ marf_data # {}
        /\ mined_blocks # {}

\* C9: once insert(h, b) has returned k, get_block_identifier(h) returns k and
\* get_block_hash(k) returns h, and both stay so over every step that is not a
\* clear_tables.
C9_IdOfStable ==
    [][/\ \A w \in Writers, h \in Hashes, b \in Blobs :
             (write_trie_blob(w, h, b) /\ insert_result(w, h).kind = "Ok") =>
                \A k \in {insert_result(w, h).id} :
                   /\ get_block_identifier(h)' = OkId(k)
                   /\ get_block_hash(k)' = [kind |-> "Ok", hash |-> h]
       /\ (~ \E w \in Writers : clear_tables(w)) =>
             \A h \in Hashes :
                get_block_identifier(h).kind = "Ok" =>
                   \A k \in {get_block_identifier(h).id} :
                      /\ get_block_identifier(h)' = OkId(k)
                      /\ get_block_hash(k)' = [kind |-> "Ok", hash |-> h]]_vars

\* a committed hash with a later committed hash, a lock and a mined row around it
C9_Witness ==
    /\ Cardinality(marf_data) = 2
    /\ block_extension_locks # {}
    /\ mined_blocks # {}
    /\ \A h \in Hashes : get_block_identifier(h).kind = "Ok"

\* C10: after write_trie_blob_to_mined(h, b) mined_blocks holds exactly one row
\* for h and its blob is b, whatever row h had before; the call changes neither
\* marf_data nor the lock table, and write_trie_blob does not change mined_blocks.
C10_MinedLastWriterWins ==
    /\ []OneRowPerHash(mined_blocks)
    /\ [][\A w \in Writers, h \in Hashes, b \in Blobs :
             /\ write_trie_blob_to_mined(w, h, b) =>
                   /\ UNCHANGED <<committed_namespace, block_extension_locks>>
                   /\ insert_mined_result(w, h).kind # "Err" =>
                         /\ \E r \in mined_blocks' : r.block_hash = h /\ r.data = b
                         /\ \A r \in mined_blocks' : r.block_hash = h => r.data = b
                         /\ \A r \in mined_blocks :
                               r.block_hash # h => r \in mined_blocks'
             /\ write_trie_blob(w, h, b) => UNCHANGED mined_namespace]_vars

\* a mined row written twice, now holding the second blob, next to a committed row
C10_Witness ==
    /\ marf_data # {}
    /\ \E r \in mined_blocks :
          /\ r.data = 2
          /\ r.block_id = WAdd(mined_prior, 2)
          /\ Cardinality(mined_blocks) = 1

\* C11: a write_trie_blob_to_mined on a hash that already has a mined row
\* returns the id of that row (the id an earlier call returned for the hash),
\* whatever other mined rows exist.
C11_ReplaceKeepsId ==
    [][\A w \in Writers, h \in Hashes, b \in Blobs :
          (write_trie_blob_to_mined(w, h, b) /\ insert_mined_result(w, h).kind = "Ok") =>
             \A r \in mined_blocks :
                (r.block_hash = h /\ FitsU32(r.block_id))
                   => insert_mined_result(w, h).id = r.block_id]_vars

(* ---------------- the event dispatcher's claims ---------------- *)
\* an event key selects an event
Matches(key, event) == key = AnyEvent \/ key = event

\* the event keys the observer at position o registered with
EventsKeysOf(o) ==
    IF o < registered_prior THEN {}
    ELSE registered_observers[o - registered_prior + 1].events_keys

\* the ids of the events of the tip that some key of the observer at o selects
Selected(tip, o) ==
    {i \in 0..(Len(AllEvents(tip)) - 1) :
        \E key \in EventsKeysOf(o) : Matches(key, AllEvents(tip)[i + 1])}

\* C12: the event list process_chain_tip hands to an observer holds exactly
\* the events of the chain tip that at least one of the observer's keys
\* selects, each of them once.
C12_ExactlyMatching ==
    \A n \in 1..Len(sent) :
        \A o \in {sent[n].first, sent[n].last} :
            /\ {sent[n].events[j] : j \in 1..Len(sent[n].events)} = Selected(chain_tip, o)
            /\ Len(sent[n].events) = Cardinality(Selected(chain_tip, o))

\* C13: in every event list process_chain_tip hands to an observer the events
\* are in increasing order of their position in the chain tip (receipt order,
\* then event order within the receipt).
C13_PositionOrder ==
    \A n \in 1..Len(sent) :
        \A i, j \in 1..Len(sent[n].events) :
            i < j => sent[n].events[i] < sent[n].events[j]

\* C14: an observer whose dispatch matrix row is empty for the chain tip is
\* not contacted: no connection to it is opened and no payload is written.
C14_EmptyRowNotContacted ==
    \A n \in 1..Len(sent) :
        sent[n].connected => dispatch_matrix(chain_tip, sent[n].first) # {}

\* C15: when the connection or the write to one observer fails, process_chain_tip
\* (on a chain tip whose results are all responses, the failure being at an
\* observer with a non-empty row) still makes a send call for every other
\* observer with a non-empty row and returns normally.
C15_FailureIsLocal ==
    (/\ tips_processed > 0
     /\ AllResponses(chain_tip)
     /\ \A n \in 1..Len(sent) :
           ~sent[n].delivered => dispatch_matrix(chain_tip, sent[n].first) # {}) =>
        /\ status = "returned"
        /\ \A o \in registered_prior..(NumRegistered - 1) :
              dispatch_matrix(chain_tip, o) # {} =>
                 \E n \in 1..Len(sent) : sent[n].first = o

\* C16: when a receipt of the chain tip has a result that is not a response,
\* process_chain_tip contacts no observer that has events to receive: no
\* connection is opened and no payload is written, however many observers
\* are registered.
C16_AbortBeforeContact ==
    (tips_processed > 0 /\ ~AllResponses(chain_tip)) =>
        \A n \in 1..Len(sent) :
            dispatch_matrix(chain_tip, sent[n].first) # {}
               => (~sent[n].connected /\ ~sent[n].delivered)

\* the observer indexes recorded for an event key
Bucket(key) ==
    CASE key.type = "contract" -> contract_events_observers_lookup[key.key]
      [] key.type = "stx" -> stx_observers_lookup
      [] key.type = "asset" -> assets_observers_lookup[key.key]
      [] key.type = "any" -> any_event_observers_lookup

\* C17: the k-th registered observer (from 0) has the index k, however many
\* observers are registered: every key an observer registered with has the
\* observer's position in its bucket, and every index in a bucket is the
\* position of an observer that registered with that key (so no two observers
\* share an index).
C17_IndexIsPosition ==
    \A key \in EventKeyTypes :
        /\ \A o \in registered_prior..(NumRegistered - 1) :
              key \in EventsKeysOf(o) => o \in Bucket(key)
        /\ \A index \in Bucket(key) :
              index < NumRegistered /\ key \in EventsKeysOf(index)

(* ---------------- the storage layer's claims, continued ---------------- *)
\* C18: once a hash is in marf_data it stays there over every step that is
\* not a clear_tables, no try_lock on it is under way or gets past its
\* committed check (it returns Ok(false) there), none returns true, and the
\* hash does not become locked.
C18_CommittedIsTerminal ==
    /\ [](\A h \in Hashes : is_bhh_committed(h) => \A w \in Writers : bhh[w] # h)
    /\ [][(~ \E w \in Writers : clear_tables(w)) =>
             \A h \in Hashes :
                is_bhh_committed(h) =>
                   /\ is_bhh_committed(h)'
                   /\ committed_check(h) = OkBool(FALSE)
                   /\ grants'[h] <= grants[h]
                   /\ \A w \in Writers : bhh'[w] # h
                   /\ ~is_bhh_locked(h) => ~is_bhh_locked(h)']_vars

\* a committed hash whose lock was dropped, while a try_lock on another hash
\* is past its committed check
C18_Witness ==
    \E h \in Hashes, w \in Writers :
        /\ is_bhh_committed(h) /\ ~is_bhh_locked(h)
        /\ pc[w] = "not_locked" /\ bhh[w] # h

\* C19: every write_trie_blob that succeeds is made in a state where its hash
\* is in block_extension_locks, whatever the writers do.
C19_CommitOnlyWhileLocked ==
    [][\A w \in Writers, h \in Hashes, b \in Blobs :
          (write_trie_blob(w, h, b) /\ insert_result(w, h).kind = "Ok")
             => is_bhh_locked(h)]_vars

\* C20: drop_lock(h) removes h from block_extension_locks when it is there and
\* succeeds without a change when it is not (with no transaction of another
\* writer open); it changes no other hash's lock, nor marf_data, nor
\* mined_blocks.  clear_lock_data empties block_extension_locks and changes
\* nothing else; with the lock table empty, a try_lock on a hash that is not
\* committed, run with no other writer in a transaction, returns true.
C20_UnlockIsLocal ==
    [][\A w \in Writers :
          /\ \A h \in Hashes :
                drop_lock(w, h) =>
                   /\ UNCHANGED <<committed_namespace, mined_namespace>>
                   /\ \A g \in Hashes \ {h} : is_bhh_locked(g)' = is_bhh_locked(g)
                   /\ Alone(w) => delete_result(w).kind = "Ok"
                   /\ delete_result(w).kind = "Ok" => ~is_bhh_locked(h)'
          /\ clear_lock_data(w) =>
                /\ UNCHANGED <<committed_namespace, mined_namespace>>
                /\ Alone(w) => delete_result(w).kind = "Ok"
                /\ delete_result(w).kind = "Ok" => block_extension_locks' = {}
          /\ pc'[w] # pc[w] =>
                \A h \in {CallHash(w)} :
                   (block_extension_locks = {} /\ ~is_bhh_committed(h) /\ Alone(w))
                      => (pc'[w] # "idle" \/ (is_bhh_locked(h)' /\ grants'[h] = 1))]_vars

\* every hash locked, one of them committed, next to a mined row: the state
\* in which drop_lock and clear_lock_data have rows to remove and rows to keep
C20_Witness ==
    /\ block_extension_locks = Hashes
    /\ Cardinality(marf_data) = 1
    /\ mined_blocks # {}
    /\ \A w \in Writers : pc[w] = "idle"

\* C21: every observer index in a bucket is smaller than the number of
\* registered observers (so that no row and no observer looked up by
\* process_chain_tip is out of range), and process_chain_tip makes its send
\* calls one at a time in ascending order of the observers' positions, from
\* position 0 on, each call made only after the one before it has returned.
C21_IndexesInRange ==
    /\ \A key \in EventKeyTypes : \A index \in Bucket(key) : index < NumRegistered
    /\ \A n \in 1..Len(sent) :
          /\ sent[n].first = (IF n = 1 THEN 0 ELSE sent[n - 1].last + 1)
          /\ sent[n].first <= sent[n].last
          /\ sent[n].last < NumRegistered
          /\ n < Len(sent) => sent[n].delivered

\* a chain tip sent to more than 2^16 observers, two of them with keys, one
\* of whose indexes has wrapped to 0
C21_Witness ==
    /\ status = "returned"
    /\ Len(sent) = 4
    /\ NumRegistered > 2^16
    /\ \E key \in EventKeyTypes : 0 \in Bucket(key)
    /\ \E n \in 1..Len(sent) : sent[n].events # <<>>

====
